---- MODULE Spec2Model ----
(***************************************************************************)
(* Model of the mutation algebra and tree statistics of src/src/mat.pyx    *)
(* (class MATree): accumulate_mutations, count_haplotypes,                 *)
(* compute_nucleotide_diversity, simple_parsimony and reverse_strand,      *)
(* together with the tree-engine operations they call.                     *)
(*                                                                         *)
(* A tree is the pair (children, mutations): children maps every node      *)
(* identifier to the ordered sequence of its children, mutations maps it   *)
(* to the ordered mutation list of the edge above it.  The root, when the  *)
(* tree is not empty, is node 1.  A mutation string "A5T" is the triple    *)
(* <<"A", 5, "T">>: mname[0], mname[1:-1] and mname[-1] of the code.       *)
(***************************************************************************)
EXTENDS Integers, Sequences, FiniteSets, TLC

VARIABLES children, mutations, ret, pre, reversals

vars == <<children, mutations, ret, pre, reversals>>

(* ------------------------------ bounds --------------------------------- *)

\* Largest number of nodes of an input tree.
MaxNodes == 4

\* Largest number of nodes of an input path (a tree without branching).
MaxPathNodes == 2

\* Largest number of mutations annotated on an input path.
MaxPathMuts == 3

\* Width, in bits, of the signed integer that holds Mutation.position.
IntBits == 3

\* Number of reverse_strand calls explored along one behaviour.
MaxReversals == 2

(* ----------------------------- utilities ------------------------------- *)

Range(s) == {s[i] : i \in DOMAIN s}

RECURSIVE SetToSeq(_)
\* The elements of a finite set of integers, in increasing order.
SetToSeq(S) ==
    IF S = {} THEN <<>>
    ELSE LET m == CHOOSE x \in S : \A y \in S : x <= y
         IN  <<m>> \o SetToSeq(S \ {m})

RECURSIVE Remove(_, _)
\* The sequence s without the element x.
Remove(s, x) ==
    IF s = <<>> THEN <<>>
    ELSE IF Head(s) = x THEN Remove(Tail(s), x)
         ELSE <<Head(s)>> \o Remove(Tail(s), x)

RECURSIVE Pow2(_)
Pow2(n) == IF n = 0 THEN 1 ELSE 2 * Pow2(n - 1)

MinInt == 0 - Pow2(IntBits - 1)
MaxInt == Pow2(IntBits - 1) - 1

(* --------------------------- mutation codec ---------------------------- *)

\* One-bit nucleotide codes of the tree engine.
NucA == 1
NucC == 2
NucG == 4
NucT == 8

complement_wrong(input) ==
    IF input = 1 THEN 8
    ELSE IF input = 8 THEN 1
    ELSE IF input = 2 THEN 4
    ELSE IF input = 4 THEN 1
    ELSE input

complement(input) ==
    IF input = 1 THEN 8
    ELSE IF input = 8 THEN 1
    ELSE IF input = 2 THEN 4
    ELSE IF input = 4 THEN 2
    ELSE input

\* The letter of a nucleotide code.
get_nuc(code) ==
    IF code = NucA THEN "A"
    ELSE IF code = NucC THEN "C"
    ELSE IF code = NucG THEN "G"
    ELSE IF code = NucT THEN "T"
    ELSE "N"

\* The canonical string of a mutation: <ref_base><position><mutant_base>.
get_string(m) == <<get_nuc(m.ref_nuc), m.position, get_nuc(m.mut_nuc)>>

Mut(ref, pos, mut) ==
    [position |-> pos, ref_nuc |-> ref, par_nuc |-> ref, mut_nuc |-> mut]

\* The substitutions an input path may carry: a substitution, its reversal,
\* a chain through an intermediate base, and the reversal's bases at another
\* position.
MutPool ==
    { Mut(NucA, 1, NucT), Mut(NucT, 1, NucA), Mut(NucT, 1, NucG),
      Mut(NucG, 1, NucA), Mut(NucT, 2, NucA) }

(* ----------------------------- tree engine ----------------------------- *)

NULL == 0
Root(ch) == IF DOMAIN ch = {} THEN NULL ELSE 1

is_leaf(ch, n) == ch[n] = <<>>

\* The parent of node n, NULL for the root.
Parent(ch, n) ==
    IF \E p \in DOMAIN ch : n \in Range(ch[p])
    THEN CHOOSE p \in DOMAIN ch : n \in Range(ch[p])
    ELSE NULL

RECURSIVE rsearch(_, _)
\* The path from node nid up to the root, nid included (sample -> root).
rsearch(ch, nid) ==
    IF nid = NULL THEN <<>> ELSE <<nid>> \o rsearch(ch, Parent(ch, nid))

RECURSIVE depth_first_expansion(_, _)
RECURSIVE dfe_children(_, _)
\* Pre-order traversal from node.
depth_first_expansion(ch, node) ==
    IF node = NULL THEN <<>> ELSE <<node>> \o dfe_children(ch, ch[node])
dfe_children(ch, cs) ==
    IF cs = <<>> THEN <<>>
    ELSE depth_first_expansion(ch, Head(cs)) \o dfe_children(ch, Tail(cs))

IsLeafOf(ch) == [n \in DOMAIN ch |-> is_leaf(ch, n)]

\* The identifiers of all leaves of the tree.
get_leaves_ids(ch) ==
    LET leaf == IsLeafOf(ch)
        Keep(n) == leaf[n]
    IN  SelectSeq(depth_first_expansion(ch, Root(ch)), Keep)

(* --------------------------- accumulate_mutations ---------------------- *)

\* oppo = mname[-1] + mname[1:-1] + mname[0]
oppo(mname) == <<mname[3], mname[2], mname[1]>>

InSeq(x, s) == \E i \in DOMAIN s : s[i] = x

accumulate_step_wrong(allm, mname) ==
    IF InSeq(mname, allm) THEN allm ELSE Append(allm, mname)

\* One iteration of the inner loop; allm is the set in insertion order.
accumulate_step(allm, mname) ==
    IF InSeq(oppo(mname), allm) THEN Remove(allm, oppo(mname))
    ELSE IF InSeq(mname, allm) THEN allm ELSE Append(allm, mname)

RECURSIVE PathStrings(_, _)
\* The strings of the mutations of the nodes of ancestors, last node first.
PathStrings(mu, ancestors) ==
    IF ancestors = <<>> THEN <<>>
    ELSE LET n == ancestors[Len(ancestors)]
         IN  [i \in 1..Len(mu[n]) |-> get_string(mu[n][i])]
             \o PathStrings(mu, SubSeq(ancestors, 1, Len(ancestors) - 1))

RECURSIVE accumulate_prefix(_, _)
\* The running set after the first k mutations of the path.
accumulate_prefix(strs, k) ==
    IF k = 0 THEN <<>>
    ELSE accumulate_step(accumulate_prefix(strs, k - 1), strs[k])

accumulate_mutations(ch, mu, sample) ==
    LET strs == PathStrings(mu, rsearch(ch, sample))
    IN  accumulate_prefix(strs, Len(strs))

(* ---------------------------- count_haplotypes -------------------------- *)

LetterOrd(c) ==
    IF c = "A" THEN 1 ELSE IF c = "C" THEN 2 ELSE IF c = "G" THEN 3
    ELSE IF c = "N" THEN 4 ELSE 5

\* The order sorted() puts two mutation strings in: first base, position,
\* last base (positions are compared as numbers; the input positions have
\* one digit, where that is the order of the strings).
StrLess(a, b) ==
    \/ LetterOrd(a[1]) < LetterOrd(b[1])
    \/ a[1] = b[1] /\ a[2] < b[2]
    \/ a[1] = b[1] /\ a[2] = b[2] /\ LetterOrd(a[3]) < LetterOrd(b[3])

haplotype_key_unsorted(smset) == smset

\* smkey = tuple(sorted(smset))
haplotype_key(smset) == SortSeq(smset, StrLess)

RECURSIVE count_haplotypes_loop(_, _, _, _)
count_haplotypes_loop(ch, mu, samples, divtrack) ==
    IF samples = <<>> THEN divtrack
    ELSE LET smset == accumulate_mutations(ch, mu, Head(samples))
             smkey == haplotype_key(smset)
             seen  == IF smkey \in DOMAIN divtrack THEN divtrack
                      ELSE (smkey :> 0) @@ divtrack
             next  == [seen EXCEPT ![smkey] = @ + 1]
         IN  count_haplotypes_loop(ch, mu, Tail(samples), next)

\* The haplotype table: a function from keys to counts.
count_haplotypes(ch, mu) ==
    count_haplotypes_loop(ch, mu, get_leaves_ids(ch), <<>>)

(* ----------------------- compute_nucleotide_diversity ------------------ *)

RECURSIVE Gcd(_, _)
Gcd(a, b) == IF b = 0 THEN a ELSE Gcd(b, a % b)

Abs(x) == IF x < 0 THEN 0 - x ELSE x

\* Exact fractions <<numerator, denominator>> in lowest terms, denominator > 0.
Norm(n, d) ==
    LET g == Gcd(Abs(n), Abs(d))
        s == IF d < 0 THEN 0 - 1 ELSE 1
    IN  <<(s * n) \div g, (s * d) \div g>>

Frac(n, d) == Norm(n, d)
FMul(a, b) == Norm(a[1] * b[1], a[2] * b[2])
FAdd(a, b) == Norm(a[1] * b[2] + b[1] * a[2], a[2] * b[2])

RECURSIVE total_matched(_, _)
\* The number of elements of l1 that are in set(l2).
total_matched(l1, l2) ==
    IF l1 = <<>> THEN 0
    ELSE (IF InSeq(Head(l1), l2) THEN 1 ELSE 0) + total_matched(Tail(l1), l2)

count_differences_one_sided(l1, l2) == Len(l1) - total_matched(l1, l2)

count_differences(l1, l2) ==
    (Len(l1) - total_matched(l1, l2)) + (Len(l2) - total_matched(l1, l2))

RECURSIVE SumValues(_)
\* sum(divtrack.values())
SumValues(divtrack) ==
    IF DOMAIN divtrack = {} THEN 0
    ELSE LET k == CHOOSE k \in DOMAIN divtrack : TRUE
         IN  divtrack[k]
             + SumValues([j \in DOMAIN divtrack \ {k} |-> divtrack[j]])

RECURSIVE diversity_loop(_, _, _, _)
\* The double loop over the keys; pairs is the set of (g1, g2) still to visit.
diversity_loop(divtrack, total_seq, pairs, div) ==
    IF pairs = {} THEN div
    ELSE LET p == CHOOSE p \in pairs : TRUE
             g1 == p[1]
             g2 == p[2]
             g1_freq == Frac(divtrack[g1], total_seq)
             g2_freq == Frac(divtrack[g2], total_seq)
             pair_diff == count_differences(g1, g2)
             term == FMul(FMul(Frac(pair_diff, 1), g1_freq), g2_freq)
         IN  diversity_loop(divtrack, total_seq, pairs \ {p},
                            IF g1 # g2 THEN FAdd(div, term) ELSE div)

compute_nucleotide_diversity(ch, mu) ==
    LET divtrack == count_haplotypes(ch, mu)
        total_seq == SumValues(divtrack)
        div == diversity_loop(divtrack, total_seq,
                              (DOMAIN divtrack) \X (DOMAIN divtrack),
                              Frac(0, 1))
    IN  IF total_seq - 1 = 0
        THEN [outcome |-> "ZeroDivisionError", value |-> "none"]
        ELSE [outcome |-> "ok",
              value |-> FMul(div, Frac(total_seq, total_seq - 1))]

(* ------------------------- resolve_all_polytomies ---------------------- *)

Polytomies(ch) == {n \in DOMAIN ch : Len(ch[n]) > 2}

MaxId(ch) == CHOOSE m \in DOMAIN ch : \A n \in DOMAIN ch : n <= m

RECURSIVE resolve_all_polytomies(_, _)
\* The tree with every node of more than two children split: the node keeps
\* its first child and gets a new node, without mutations, that takes the
\* other children; repeated until no node has more than two children.
resolve_all_polytomies(ch, mu) ==
    IF Polytomies(ch) = {} THEN [children |-> ch, mutations |-> mu]
    ELSE LET n  == CHOOSE n \in Polytomies(ch) : \A o \in Polytomies(ch) : n <= o
             x  == MaxId(ch) + 1
             cs == ch[n]
             ch2 == [i \in DOMAIN ch \cup {x} |->
                        IF i = x THEN Tail(cs)
                        ELSE IF i = n THEN <<Head(cs), x>> ELSE ch[i]]
             mu2 == [i \in DOMAIN mu \cup {x} |-> IF i = x THEN <<>> ELSE mu[i]]
         IN  resolve_all_polytomies(ch2, mu2)

(* ---------------------------- simple_parsimony ------------------------- *)

\* The character states of the caller's alphabet.
States == {"X", "Y"}

fitch_state_union_only(left, right) == left \cup right

\* state = left & right; if not state: state = left | right
fitch_state(left, right) ==
    IF left \cap right # {} THEN left \cap right ELSE left \cup right

RECURSIVE parsimony_loop(_, _, _, _)
\* Iterations i, i+1, ... of the loop over the reversed traversal.
parsimony_loop(ch, nodes, i, nas) ==
    IF i >= Len(nodes) THEN [outcome |-> "ok", value |-> nas]
    ELSE LET cnode == nodes[Len(nodes) - i]
             cs    == ch[cnode]
         IN  IF is_leaf(ch, cnode) THEN parsimony_loop(ch, nodes, i + 1, nas)
             ELSE IF Len(cs) # 2
                  THEN [outcome |-> "AssertionError", value |-> "none"]
             ELSE IF cs[1] \notin DOMAIN nas \/ cs[2] \notin DOMAIN nas
                  THEN [outcome |-> "KeyError", value |-> "none"]
             ELSE LET state == fitch_state(nas[cs[1]], nas[cs[2]])
                  IN  parsimony_loop(ch, nodes, i + 1,
                          [n \in DOMAIN nas \cup {cnode} |->
                              IF n = cnode THEN state ELSE nas[n]])

\* The result of the solver on the (already resolved) tree ch.
simple_parsimony(ch, leaf_assignments) ==
    parsimony_loop(ch, depth_first_expansion(ch, Root(ch)), 0,
                   [l \in DOMAIN leaf_assignments |-> {leaf_assignments[l]}])

(* ----------------------------- reverse_strand -------------------------- *)

reverse_mutation(mutation, genome_size) ==
    [position |-> genome_size - mutation.position - 1,
     ref_nuc  |-> complement(mutation.ref_nuc),
     par_nuc  |-> complement(mutation.par_nuc),
     mut_nuc  |-> complement(mutation.mut_nuc)]

FitsInt(v) == MinInt <= v /\ v <= MaxInt

RECURSIVE reverse_strand(_, _, _)
\* The loop over nodes; a position that does not fit the integer field ends
\* the call with the nodes before it already rewritten.
reverse_strand(nodes, mu, genome_size) ==
    IF nodes = <<>> THEN [outcome |-> "ok", mutations |-> mu]
    ELSE LET n   == Head(nodes)
             nmv == [i \in 1..Len(mu[n]) |->
                        reverse_mutation(mu[n][i], genome_size)]
         IN  IF \E i \in 1..Len(nmv) : ~FitsInt(nmv[i].position)
             THEN [outcome |-> "OverflowError", mutations |-> mu]
             ELSE reverse_strand(Tail(nodes), [mu EXCEPT ![n] = nmv],
                                 genome_size)

(* -------------------------------- inputs ------------------------------- *)

\* The trees of exactly n nodes: node i > 1 hangs under a node of smaller
\* identifier, children are ordered by identifier.
Topologies(n) ==
    { [i \in 1..n |-> SetToSeq({j \in 2..n : pv[j] = i})] :
        pv \in {f \in [2..n -> 1..n] : \A j \in 2..n : f[j] < j} }

\* The path of n nodes.
Chain(n) == [i \in 1..n |-> IF i < n THEN <<i + 1>> ELSE <<>>]

RECURSIVE ListAt(_, _, _)
\* The elements s[j] with place[j] = n, in order.
ListAt(s, place, n) ==
    IF s = <<>> THEN <<>>
    ELSE (IF Head(place) = n THEN <<Head(s)>> ELSE <<>>)
         \o ListAt(Tail(s), Tail(place), n)

\* The mutation lists of n nodes that hold at most total mutations of pool.
Annotations(n, total, pool) ==
    IF n = 0 THEN {<<>>}
    ELSE UNION { { [i \in 1..n |-> ListAt(s, place, i)] :
                     s \in [1..k -> pool],
                     place \in {f \in [1..k -> 1..n] :
                                  \A a, b \in 1..k : a < b => f[a] <= f[b]} } :
                 k \in 0..total }

\* Paths of at most MaxPathNodes nodes with at most MaxPathMuts mutations.
PathInputs(pool) ==
    UNION { { [children |-> Chain(n), mutations |-> mu] :
                mu \in Annotations(n, MaxPathMuts, pool) } :
            n \in 0..MaxPathNodes }

\* The mutation lists a node of a branching input tree may carry: none, one
\* mutation, or that mutation after another one (under a node that carries
\* the first, the same set built in the other order).
HapLists ==
    { <<>>, <<Mut(NucA, 1, NucT)>>,
      <<Mut(NucC, 2, NucG), Mut(NucA, 1, NucT)>> }

\* Trees of at most MaxNodes nodes, every node carrying one of HapLists.
HapInputs ==
    UNION { { [children |-> ch, mutations |-> mu] :
                ch \in Topologies(n), mu \in [1..n -> HapLists] } :
            n \in 0..MaxNodes }

\* The mutations of the inputs of reverse_strand: every base code that
\* complement maps, and one (15, any base) that it leaves alone.
RevPool ==
    { [position |-> 1, ref_nuc |-> NucA, par_nuc |-> NucA, mut_nuc |-> NucT],
      [position |-> 2, ref_nuc |-> NucC, par_nuc |-> NucG, mut_nuc |-> 15] }

\* The mutation list of node i in the trees of the full state machine.
DefaultList(i) ==
    IF i = 1 THEN <<>>
    ELSE IF i % 3 = 2 THEN <<Mut(NucA, 1, NucT)>>
    ELSE IF i % 3 = 0 THEN <<Mut(NucC, 2, NucG)>>
    ELSE <<Mut(NucT, 1, NucA)>>

\* Every tree of at most MaxNodes nodes, node i carrying DefaultList(i).
AnnotatedTrees ==
    UNION { { [children |-> ch, mutations |-> [i \in 1..n |-> DefaultList(i)]] :
                ch \in Topologies(n) } :
            n \in 0..MaxNodes }

\* The genome lengths passed to reverse_strand: negative, zero, a length
\* above every input position, and one too large for some positions.
GenomeSizes == {0 - 1, 0, 4, MaxInt + 3}

\* The mappings from a subset of the leaves to a character state.
LeafAssignments(ch) ==
    UNION { [L -> States] : L \in SUBSET Range(get_leaves_ids(ch)) }

(* ----------------------------- state machine --------------------------- *)

Tree == [children |-> children, mutations |-> mutations]

NoCall == [op |-> "none", arg |-> "none", outcome |-> "none",
           value |-> "none", again |-> FALSE]

InitOn(inputs) ==
    /\ \E t \in inputs :
          /\ children = t.children
          /\ mutations = t.mutations
          /\ pre = t
    /\ ret = NoCall
    /\ reversals = 0

Init == InitOn(AnnotatedTrees)

AccumulateMutations_consuming ==
    \E sample \in DOMAIN children :
        /\ ret' = [op |-> "accumulate_mutations", arg |-> sample,
                   outcome |-> "ok",
                   value |-> accumulate_mutations(children, mutations, sample),
                   again |-> FALSE]
        /\ pre' = Tree
        /\ mutations' = [mutations EXCEPT ![sample] = <<>>]
        /\ UNCHANGED <<children, reversals>>

AccumulateMutations ==
    \E sample \in DOMAIN children :
        /\ ret' = [op |-> "accumulate_mutations", arg |-> sample,
                   outcome |-> "ok",
                   value |-> accumulate_mutations(children, mutations, sample),
                   again |-> FALSE]
        /\ pre' = Tree
        /\ UNCHANGED <<children, mutations, reversals>>

CountHaplotypes ==
    /\ ret' = [op |-> "count_haplotypes", arg |-> "none", outcome |-> "ok",
               value |-> count_haplotypes(children, mutations),
               again |-> FALSE]
    /\ pre' = Tree
    /\ UNCHANGED <<children, mutations, reversals>>

ComputeNucleotideDiversity ==
    /\ LET r == compute_nucleotide_diversity(children, mutations)
       IN  ret' = [op |-> "compute_nucleotide_diversity", arg |-> "none",
                   outcome |-> r.outcome, value |-> r.value, again |-> FALSE]
    /\ pre' = Tree
    /\ UNCHANGED <<children, mutations, reversals>>

resolve_skipped(ch, mu) == [children |-> ch, mutations |-> mu]

\* self.t = resolve_all_polytomies(self.t)
MATree_resolve_all_polytomies(ch, mu) == resolve_all_polytomies(ch, mu)

SimpleParsimony ==
    \E leaf_assignments \in LeafAssignments(children) :
        LET t == MATree_resolve_all_polytomies(children, mutations)
            r == simple_parsimony(t.children, leaf_assignments)
        IN  /\ children' = t.children
            /\ mutations' = t.mutations
            /\ ret' = [op |-> "simple_parsimony", arg |-> leaf_assignments,
                       outcome |-> r.outcome, value |-> r.value,
                       again |-> FALSE]
            /\ pre' = Tree
            /\ UNCHANGED reversals

ReverseStrand ==
    \E genome_size \in GenomeSizes :
        /\ reversals < MaxReversals
        /\ LET r == reverse_strand(depth_first_expansion(children,
                                                         Root(children)),
                                   mutations, genome_size)
           IN  /\ mutations' = r.mutations
               /\ ret' = [op |-> "reverse_strand", arg |-> genome_size,
                          outcome |-> r.outcome, value |-> "none",
                          again |-> (ret.op = "reverse_strand"
                                     /\ ret.arg = genome_size)]
        /\ pre' = Tree
        /\ reversals' = reversals + 1
        /\ UNCHANGED children

Next ==
    \/ AccumulateMutations
    \/ CountHaplotypes
    \/ ComputeNucleotideDiversity
    \/ SimpleParsimony
    \/ ReverseStrand

Spec == Init /\ [][Next]_vars

\* The read-only statistics on paths and on branching trees.
InitDiff == InitOn(PathInputs(MutPool) \cup HapInputs)

NextDiff ==
    \/ AccumulateMutations
    \/ CountHaplotypes
    \/ ComputeNucleotideDiversity

SpecDiff == InitDiff /\ [][NextDiff]_vars

\* The strand reverser alone, on paths.
InitRev == InitOn(PathInputs(RevPool))

NextRev == ReverseStrand

SpecRev == InitRev /\ [][NextRev]_vars

(* -------------------------------- claims ------------------------------- *)

\* The strings on the path of the last accumulate_mutations call, root first.
CallPath == PathStrings(pre.mutations, rsearch(pre.children, ret.arg))

NoReciprocal(allm) == \A m \in Range(allm) : ~InSeq(oppo(m), allm)

\* C1: the set built by accumulate_mutations never holds a mutation string
\* together with its reciprocal, neither at the end nor after any processed
\* mutation of the path.
C1_NoReciprocalPair ==
    ret.op = "accumulate_mutations" =>
        /\ NoReciprocal(ret.value)
        /\ \A k \in 0..Len(CallPath) :
              NoReciprocal(accumulate_prefix(CallPath, k))

\* A path on which a mutation is followed by its reciprocal and something
\* else is left in the result.
C1_Witness ==
    /\ ret.op = "accumulate_mutations"
    /\ \E i, j \in 1..Len(CallPath) : i < j /\ CallPath[j] = oppo(CallPath[i])
    /\ ret.value # <<>>

AtPosition(strs, p) ==
    LET Here(m) == m[2] = p IN SelectSeq(strs, Here)

PositionsOf(strs) == {strs[i][2] : i \in DOMAIN strs}

\* Every mutation of the path starts from the base the path has reached.
ChainConsistent(strs) ==
    \A p \in PositionsOf(strs) :
        LET q == AtPosition(strs, p)
        IN  \A i \in 1..(Len(q) - 1) : q[i + 1][1] = q[i][3]

\* C2: the result of accumulate_mutations is the minimal divergence set: at
\* most one entry per position, and an entry at a position exactly when the
\* base the sample ends with differs from the base the root has there.
C2_MinimalDivergence ==
    (ret.op = "accumulate_mutations" /\ ChainConsistent(CallPath)) =>
        /\ \A m \in Range(ret.value) : m[2] \in PositionsOf(CallPath)
        /\ \A p \in PositionsOf(CallPath) :
              LET q       == AtPosition(CallPath, p)
                  entries == {m \in Range(ret.value) : m[2] = p}
              IN  /\ Cardinality(entries) <= 1
                  /\ (entries # {}) <=> (q[Len(q)][3] # q[1][1])

LeavesOf(ch) == Range(get_leaves_ids(ch))

\* The divergence set of leaf l of tree t.
Divergence(t, l) == Range(accumulate_mutations(t.children, t.mutations, l))

LeavesWith(t, S) == {l \in LeavesOf(t.children) : Divergence(t, l) = S}

SymDiff(S1, S2) == (S1 \ S2) \cup (S2 \ S1)

RECURSIVE PairSum(_, _)
\* The sum of |g1 symdiff g2| * count(g1) * count(g2) over the pairs.
PairSum(t, pairs) ==
    IF pairs = {} THEN 0
    ELSE LET p == CHOOSE p \in pairs : TRUE
         IN  Cardinality(SymDiff(p[1], p[2]))
                 * Cardinality(LeavesWith(t, p[1]))
                 * Cardinality(LeavesWith(t, p[2]))
             + PairSum(t, pairs \ {p})

DistinctPairs(t) ==
    LET H == {Divergence(t, l) : l \in LeavesOf(t.children)}
    IN  {p \in H \X H : p[1] # p[2]}

\* C3: with N >= 2 leaves compute_nucleotide_diversity returns N/(N-1) times
\* the sum over ordered pairs of distinct haplotypes of
\* |g1 symdiff g2| * count(g1)/N * count(g2)/N; the value is not negative,
\* and it is 1 for two leaves whose divergence sets differ in one mutation.
C3_DiversityFormula ==
    LET N == Cardinality(LeavesOf(pre.children))
    IN  (ret.op = "compute_nucleotide_diversity" /\ N >= 2) =>
            /\ ret.outcome = "ok"
            /\ ret.value = Norm(N * PairSum(pre, DistinctPairs(pre)),
                                (N - 1) * N * N)
            /\ ret.value[1] >= 0
            /\ (N = 2 /\ \E p \in DistinctPairs(pre) :
                            Cardinality(SymDiff(p[1], p[2])) = 1)
                   => ret.value = <<1, 1>>

\* Two leaves whose divergence sets differ in exactly one mutation.
C3_Witness ==
    /\ ret.op = "compute_nucleotide_diversity"
    /\ Cardinality(LeavesOf(pre.children)) = 2
    /\ \E p \in DistinctPairs(pre) : Cardinality(SymDiff(p[1], p[2])) = 1
    /\ ret.outcome = "ok"
    /\ ret.value = <<1, 1>>

\* C4: on a tree of at most one leaf compute_nucleotide_diversity ends in a
\* degenerate-input error: it returns no number and divides by no zero.
C4_DegenerateInputError ==
    (ret.op = "compute_nucleotide_diversity"
        /\ Cardinality(LeavesOf(pre.children)) <= 1) =>
        ret.outcome \notin {"ok", "ZeroDivisionError"}

HasTernaryNode(ch) == \E n \in DOMAIN ch : Len(ch[n]) = 3

HasUnaryNode(ch) == \E n \in DOMAIN ch : Len(ch[n]) = 1

Bifurcating(ch) == \A n \in DOMAIN ch : Len(ch[n]) \in {0, 2}

\* assignment gives every leaf of ch its input state and every other node
\* the intersection of its two children's sets, or their union when the
\* intersection is empty.
FitchConsistent(ch, leaf_assignments, assignment) ==
    /\ DOMAIN assignment = DOMAIN ch
    /\ \A n \in DOMAIN ch :
          /\ assignment[n] # {}
          /\ Len(ch[n]) = 0 => assignment[n] = {leaf_assignments[n]}
          /\ Len(ch[n]) = 2 =>
                LET both == assignment[ch[n][1]] \cap assignment[ch[n][2]]
                    any  == assignment[ch[n][1]] \cup assignment[ch[n][2]]
                IN  assignment[n] = IF both # {} THEN both ELSE any

AllLeavesAssigned == LeavesOf(pre.children) \subseteq DOMAIN ret.arg

C6_FitchAssignment ==
    (ret.op = "simple_parsimony" /\ Bifurcating(pre.children)
        /\ AllLeavesAssigned) =>
        /\ ret.outcome = "ok"
        /\ FitchConsistent(pre.children, ret.arg, ret.value)

\* A bifurcating tree two levels deep, with one union and one intersection
\* of unequal sets.
C6_Witness ==
    /\ ret.op = "simple_parsimony"
    /\ Bifurcating(pre.children)
    /\ AllLeavesAssigned
    /\ ret.outcome = "ok"
    /\ \E n, c \in DOMAIN pre.children :
          /\ Len(pre.children[n]) = 2
          /\ c \in Range(pre.children[n])
          /\ Len(pre.children[c]) = 2
          /\ Cardinality(ret.value[c]) = 2
          /\ Cardinality(ret.value[n]) = 1

\* C7: a second reverse_strand with the same genome length restores every
\* mutation list of before the first one, and neither call changes the
\* topology.
C7_ReverseTwiceRestores ==
    [][(ret.op = "reverse_strand" /\ ret'.op = "reverse_strand"
            /\ ret'.arg = ret.arg)
        => (/\ mutations' = pre.mutations
            /\ children = pre.children
            /\ children' = pre.children)]_vars

\* The state after two successful reversals with the same genome length.
C7_Witness ==
    /\ ret.op = "reverse_strand"
    /\ ret.again
    /\ ret.outcome = "ok"
    /\ mutations # pre.mutations
    /\ \E n \in DOMAIN mutations : Len(mutations[n]) >= 2

\* C8: reverse_strand with a genome length of zero or less is rejected
\* before any write: after the call every mutation list is as it was.
C8_NonPositiveRejected ==
    (ret.op = "reverse_strand" /\ ret.arg <= 0) =>
        mutations = pre.mutations

ReadOnlyOps ==
    {"accumulate_mutations", "count_haplotypes",
     "compute_nucleotide_diversity"}

C10_HaplotypeCounts ==
    ret.op = "count_haplotypes" =>
        /\ \A key \in DOMAIN ret.value :
              /\ ret.value[key] = Cardinality(LeavesWith(pre, Range(key)))
              /\ ret.value[key] >= 1
        /\ \A l \in LeavesOf(pre.children) :
              \E key \in DOMAIN ret.value : Range(key) = Divergence(pre, l)
        /\ \A k1, k2 \in DOMAIN ret.value : Range(k1) = Range(k2) => k1 = k2
        /\ SumValues(ret.value) = Cardinality(LeavesOf(pre.children))

\* Two leaves whose sets are equal but were built in different orders,
\* counted under one key.
C10_Witness ==
    /\ ret.op = "count_haplotypes"
    /\ \E l1, l2 \in LeavesOf(pre.children) :
          /\ accumulate_mutations(pre.children, pre.mutations, l1)
                # accumulate_mutations(pre.children, pre.mutations, l2)
          /\ Divergence(pre, l1) = Divergence(pre, l2)
          /\ \E key \in DOMAIN ret.value :
                Range(key) = Divergence(pre, l1) /\ ret.value[key] = 2

====
